---------------------------- MODULE Spec2Model ----------------------------
(***************************************************************************)
(* ClusterMap (src/src/core/ClusterMap.cpp): reading a partition from a    *)
(* .tree/.ftree or .clu file into the members m_nodePaths, m_clusterIds    *)
(* and m_flowData of one ClusterMap object.                                *)
(*                                                                         *)
(* One ClusterMap object lives through a bounded number of                 *)
(* readClusterData calls.  A call is modelled as: the dispatch and the     *)
(* function prologue (readClusterData), then one step per iteration of the *)
(* getline loop (readTreeLine / readCluLine), the loop exit on end of file *)
(* (readTreeEof / readCluEof), and the return to the caller (Return).  The *)
(* file is a stream: every getline draws the next line from the set of     *)
(* lines of the format.  The file is taken to open (SafeInFile); the       *)
(* locals header and section of readTree, which nothing reads, are left    *)
(* out; lineNr counts the lines read in readClu too, where the code keeps  *)
(* no count, to bound the length of a file.                                *)
(*                                                                         *)
(* A line is [lead, path, toks]:                                           *)
(*   lead  ""  a line of length 0, "#" a comment line, "*" a section line, *)
(*         "d" any other line;                                             *)
(*   path  the characters of the first whitespace-delimited token of a     *)
(*         .tree line (<<>> for a line holding only blanks, and for .clu   *)
(*         lines, whose tokens are all in toks);                           *)
(*   toks  the remaining whitespace-delimited tokens, each <<kind, a, b>>: *)
(*         <<"int",n,0>> the digits of n, <<"dec",i,f>> the text i.f,      *)
(*         <<"frac",0,f>> the text .f (what is left of i.f once an         *)
(*         unsigned extraction took i), <<"name",0,0>> a text between two  *)
(*         double quotes, <<"word",0,0>> a text that is none of these.     *)
(* A flow value is <<i, f>>, standing for the number i.f.                  *)
(***************************************************************************)
EXTENDS Integers, Sequences, FiniteSets

\* Bounds of the model.
MaxLines == 2
MaxCalls == 2

-----------------------------------------------------------------------------
(* std::map<unsigned, T> as a set of <<key, value>> pairs with unique keys *)

Keys(m) == {p[1] : p \in m}

Has(m, k) == k \in Keys(m)

Get(m, k) == (CHOOSE p \in m : p[1] = k)[2]

\* m[k] = v
Put(m, k, v) == {p \in m : p[1] # k} \cup {<<k, v>>}

-----------------------------------------------------------------------------
(* std::istringstream: the tokens not yet extracted and the failbit.  Once *)
(* an extraction fails the failbit stays set (nothing in the loop body     *)
(* clears it before the next line), so every later extraction fails too.   *)

Stream(toks) == [toks |-> toks, fail |-> FALSE]

\* A failed extraction.  v and f are what the variable holds only by
\* courtesy: both parsers throw or leave the line before they read a
\* variable whose extraction failed.
Failed(s) == [ok |-> FALSE, v |-> 0, f |-> <<0, 0>>, s |-> [toks |-> s.toks, fail |-> TRUE]]

\* lineStream >> (unsigned int)
ReadUInt(s) ==
    IF s.fail \/ s.toks = <<>> THEN Failed(s)
    ELSE LET t == Head(s.toks) IN
         IF t[1] = "int"
         THEN [ok |-> TRUE, v |-> t[2], f |-> <<0, 0>>, s |-> [toks |-> Tail(s.toks), fail |-> FALSE]]
         ELSE IF t[1] = "dec"
         THEN [ok |-> TRUE, v |-> t[2], f |-> <<0, 0>>,
               s |-> [toks |-> <<(<<"frac", 0, t[3]>>)>> \o Tail(s.toks), fail |-> FALSE]]
         ELSE Failed(s)

\* lineStream >> (double)
ReadDouble(s) ==
    IF s.fail \/ s.toks = <<>> THEN Failed(s)
    ELSE LET t == Head(s.toks) IN
         IF t[1] = "int"
         THEN [ok |-> TRUE, v |-> 0, f |-> <<t[2], 0>>, s |-> [toks |-> Tail(s.toks), fail |-> FALSE]]
         ELSE IF t[1] \in {"dec", "frac"}
         THEN [ok |-> TRUE, v |-> 0, f |-> <<t[2], t[3]>>, s |-> [toks |-> Tail(s.toks), fail |-> FALSE]]
         ELSE Failed(s)

\* The two getline(lineStream, name, '"') calls: the first runs to the
\* opening quote (dropping whatever precedes it), the second to the closing
\* one.  With no quoted text left, the first getline either finds the stream
\* at its end or runs into the end, and the second then fails.
ReadName(s) ==
    LET idx == {i \in 1..Len(s.toks) : s.toks[i][1] = "name"} IN
    IF s.fail \/ idx = {} THEN Failed(s)
    ELSE LET i == CHOOSE j \in idx : \A k \in idx : j <= k IN
         [ok |-> TRUE, v |-> 0, f |-> <<0, 0>>,
          s |-> [toks |-> SubSeq(s.toks, i + 1, Len(s.toks)), fail |-> FALSE]]

-----------------------------------------------------------------------------
(* The multilayer index: const std::map<unsigned, std::map<unsigned,       *)
(* unsigned>>* .  [null |-> TRUE] is the null pointer.                     *)

NullIndex == [null |-> TRUE, map |-> {}]

\* layer 1 holds node 1, which is state 3
LayerIndex == [null |-> FALSE, map |-> {<<1, {<<1, 3>>}>>}]

Indexes == {NullIndex, LayerIndex}

\* it = find(layerId); nodeIdToStateId = it->second.find(nodeId)
Resolve(index, layerId, nodeId) ==
    IF Has(index.map, layerId) /\ Has(Get(index.map, layerId), nodeId)
    THEN [found |-> TRUE, stateId |-> Get(Get(index.map, layerId), nodeId)]
    ELSE [found |-> FALSE, stateId |-> 0]

-----------------------------------------------------------------------------
(* Decoding of the path token (the inner while loop of readTree).          *)

Digits == {"0", "1", "2"}

DigitVal(c) == IF c = "0" THEN 0 ELSE IF c = "1" THEN 1 ELSE 2

\* The index after the run of digits that starts at i (i itself if none).
RECURSIVE DigitsEnd(_, _)
DigitsEnd(chars, i) ==
    IF i <= Len(chars) /\ chars[i] \in Digits THEN DigitsEnd(chars, i + 1) ELSE i

\* The decimal value of chars[i..j-1].
RECURSIVE DecimalValue(_, _, _)
DecimalValue(chars, i, j) ==
    IF j <= i THEN 0 ELSE 10 * DecimalValue(chars, i, j - 1) + DigitVal(chars[j - 1])

\* The zero test of the loop body.
IsInvalidChild(childNumber) == childNumber = 0

\* while (pathStream >> childNumber) { pathStream.get(); if (childNumber == 0)
\* throw ...; path.push_back(childNumber); } : the extraction takes a run of
\* digits and fails where there is none, get() takes the one character after
\* it, whatever it is.  (Paths of the model are too short to overflow an
\* unsigned int.)
RECURSIVE DecodeFrom(_, _, _)
DecodeFrom(chars, i, path) ==
    LET j == DigitsEnd(chars, i)
        childNumber == DecimalValue(chars, i, j)
    IN IF j = i THEN [zero |-> FALSE, path |-> path]
       ELSE IF IsInvalidChild(childNumber) THEN [zero |-> TRUE, path |-> path]
       ELSE DecodeFrom(chars, j + 1, Append(path, childNumber))

DecodePath(pathString) == DecodeFrom(pathString, 1, <<>>)

-----------------------------------------------------------------------------
(* The body of the getline loop of readTree.                               *)

\* As TreeLineClass, but a section line is skipped as readClu skips it.
TreeLineClass_SkipSection(l) == IF l.lead \in {"", "#", "*"} THEN "continue" ELSE "data"

\* What the head of the loop does with the line: skip it (continue), end
\* the parse (break), or go on to tokenize it.
TreeLineClass(l) ==
    IF l.lead = "" THEN "continue"
    ELSE IF l.lead = "#" THEN "continue"
    ELSE IF l.lead = "*" THEN "break"
    ELSE "data"

\* As HigherOrderCheck, but a missing node id is never an error.
HigherOrderCheck_NoThrow(nodeIdRead, isHigherOrder) ==
    [isHigherOrder |-> nodeIdRead \/ isHigherOrder, throws |-> FALSE]

\* if (lineStream >> nodeId) m_isHigherOrder = true;
\* else if (m_isHigherOrder) throw ...
HigherOrderCheck(nodeIdRead, isHigherOrder) ==
    [isHigherOrder |-> nodeIdRead \/ isHigherOrder,
     throws |-> ~nodeIdRead /\ isHigherOrder]

\* One iteration on line l from the members (nodePaths, flowData,
\* isHigherOrder): res is "continue", "break" or the exception thrown, the
\* other fields are the members afterwards.
TreeBody(l, nodePaths, flowData, isHigherOrder, inclFlow, index) ==
    LET Out(res, ho, np, fd) ==
            [res |-> res, isHigherOrder |-> ho, nodePaths |-> np, flowData |-> fd]
        isMultilayer == ~index.null
        rFlow  == ReadDouble(Stream(l.toks))
        rName  == ReadName(rFlow.s)
        rState == ReadUInt(rName.s)
        rNode  == ReadUInt(rState.s)
        hoc    == HigherOrderCheck(rNode.ok, isHigherOrder)
        rLayer == ReadUInt(rNode.s)
        found  == Resolve(index, rLayer.v, rNode.v)
        stateId == IF isMultilayer /\ found.found THEN found.stateId ELSE rState.v
        decoded == DecodePath(l.path)
    IN IF TreeLineClass(l) # "data"
         THEN Out(TreeLineClass(l), isHigherOrder, nodePaths, flowData)
       ELSE IF l.path = <<>>
         THEN Out("FileFormatError: tree path", isHigherOrder, nodePaths, flowData)
       ELSE IF ~rFlow.ok
         THEN Out("FileFormatError: node flow", isHigherOrder, nodePaths, flowData)
       ELSE IF ~rName.ok
         THEN Out("BadConversionError: node name", isHigherOrder, nodePaths, flowData)
       ELSE IF ~rState.ok
         THEN Out("FileFormatError: node id", isHigherOrder, nodePaths, flowData)
       ELSE IF hoc.throws
         THEN Out("FileFormatError: missing state id", hoc.isHigherOrder, nodePaths, flowData)
       ELSE IF isMultilayer /\ ~rLayer.ok
         THEN Out("FileFormatError: layer id", hoc.isHigherOrder, nodePaths, flowData)
       ELSE IF isMultilayer /\ ~found.found
         THEN Out("continue", hoc.isHigherOrder, nodePaths, flowData)
       ELSE IF decoded.zero
         THEN Out("FileFormatError: 0 in path", hoc.isHigherOrder, nodePaths, flowData)
       ELSE Out("continue", hoc.isHigherOrder,
                Append(nodePaths, [stateId |-> stateId, path |-> decoded.path]),
                IF inclFlow THEN Put(flowData, stateId, rFlow.f) ELSE flowData)

-----------------------------------------------------------------------------
(* The body of the getline loop of readClu.                                *)

\* line.length() == 0 || line[0] == '#' || line[0] == '*'
CluSkips(l) == l.lead \in {"", "#", "*"}

\* One iteration on line l from the members (clusterIds, flowData).
CluBody(l, clusterIds, flowData, inclFlow, index) ==
    LET Out(res, ci, fd) == [res |-> res, clusterIds |-> ci, flowData |-> fd]
        isMultilayer == ~index.null
        rState  == ReadUInt(Stream(l.toks))
        rModule == ReadUInt(rState.s)
        rFlow   == ReadDouble(rModule.s)
        flowData1 == IF rFlow.ok /\ inclFlow
                     THEN Put(flowData, rState.v, rFlow.f) ELSE flowData
        rNode   == ReadUInt(rFlow.s)
        rLayer  == ReadUInt(rNode.s)
        found   == Resolve(index, rLayer.v, rNode.v)
        stateId == IF isMultilayer /\ found.found THEN found.stateId ELSE rState.v
    IN IF CluSkips(l)
         THEN Out("continue", clusterIds, flowData)
       ELSE IF ~(rState.ok /\ rModule.ok)
         THEN Out("FileFormatError: node key and cluster id", clusterIds, flowData)
       ELSE IF isMultilayer /\ ~rNode.ok
         THEN Out("FileFormatError: node key", clusterIds, flowData1)
       ELSE IF isMultilayer /\ ~rLayer.ok
         THEN Out("FileFormatError: layer id", clusterIds, flowData1)
       ELSE IF isMultilayer /\ ~found.found
         THEN Out("continue", clusterIds, flowData1)
       ELSE Out("continue", Put(clusterIds, stateId, rModule.v), flowData1)

-----------------------------------------------------------------------------
(* The inputs: file names, and the lines a file of each format may hold.   *)

\* A file name as its parts between the dots: <<"a", "tree">> is a.tree.
FileNames ==
    {<<"a", "tree">>, <<"a", "ftree">>, <<"a", "tree", "clu">>, <<"a", "CLU">>}

\* FileURI::getExtension: the part after the last dot, as written.
getExtension(filename) == filename[Len(filename)]

Num(n) == <<"int", n, 0>>

Dec(i, f) == <<"dec", i, f>>

Quoted == <<"name", 0, 0>>

Word == <<"word", 0, 0>>

Line(lead, path, toks) == [lead |-> lead, path |-> path, toks |-> toks]

EmptyLine == Line("", <<>>, <<>>)

CommentLine == Line("#", <<>>, <<>>)

SectionLine == Line("*", <<>>, <<>>)

TreeLines ==
    { EmptyLine, CommentLine, SectionLine,
      \* 1:2 0.5 "a" 1
      Line("d", <<"1", ":", "2">>, <<Dec(0, 5), Quoted, Num(1)>>),
      \* 10 0.5 "b" 2 1
      Line("d", <<"1", "0">>, <<Dec(0, 5), Quoted, Num(2), Num(1)>>),
      \* 1:2 0.5 "a" 1 1 1
      Line("d", <<"1", ":", "2">>, <<Dec(0, 5), Quoted, Num(1), Num(1), Num(1)>>),
      \* 1:0:2 0.5 "a" 1
      Line("d", <<"1", ":", "0", ":", "2">>, <<Dec(0, 5), Quoted, Num(1)>>),
      \* 1:0:2 0.5 "a" 2 2 2
      Line("d", <<"1", ":", "0", ":", "2">>, <<Dec(0, 5), Quoted, Num(2), Num(2), Num(2)>>),
      \* :0 0.5 "a" 1
      Line("d", <<":", "0">>, <<Dec(0, 5), Quoted, Num(1)>>),
      \* 1
      Line("d", <<"1">>, <<>>) }

CluLines ==
    { EmptyLine, CommentLine, SectionLine,
      \* 1 1
      Line("d", <<>>, <<Num(1), Num(1)>>),
      \* 1 2 0.5
      Line("d", <<>>, <<Num(1), Num(2), Dec(0, 5)>>),
      \* 2 1 0.5 1 1
      Line("d", <<>>, <<Num(2), Num(1), Dec(0, 5), Num(1), Num(1)>>),
      \* 1 2 0.5 2 2
      Line("d", <<>>, <<Num(1), Num(2), Dec(0, 5), Num(2), Num(2)>>),
      \* 2 2 1 1
      Line("d", <<>>, <<Num(2), Num(2), Num(1), Num(1)>>),
      \* x
      Line("d", <<>>, <<Word>>) }

-----------------------------------------------------------------------------
(* The state.                                                              *)

VARIABLES
    \* the members of the ClusterMap
    m_extension, m_nodePaths, m_clusterIds, m_flowData, m_isHigherOrder,
    \* the call in progress: where it is, its arguments and locals, and how
    \* it ended ("ok" or the exception) once pc = "done"
    pc, includeFlow, layerNodeToStateId, line, lineNr, result,
    \* history: calls made; in the current call, whether a record carried a
    \* node id, whether a section line was read, the lines other than empty
    \* and comment lines that a readTree without index read before it; and a
    \* ClusterMap constructed for the current call alone, given the same call
    \* and the same lines
    calls, hoSeen, starSeen, dataLines, fresh

members == <<m_extension, m_nodePaths, m_clusterIds, m_flowData, m_isHigherOrder>>

frame == <<pc, includeFlow, layerNodeToStateId, line, lineNr, result>>

history == <<calls, hoSeen, starSeen, dataLines, fresh>>

vars == <<members, frame, history>>

\* bool m_isHigherOrder = false; (the member's initializer)
InitIsHigherOrder == FALSE

\* A ClusterMap as constructed.
FreshMap ==
    [nodePaths |-> <<>>, clusterIds |-> {}, flowData |-> {},
     isHigherOrder |-> InitIsHigherOrder, result |-> "none"]

NoFrame ==
    /\ includeFlow' = FALSE
    /\ layerNodeToStateId' = NullIndex
    /\ line' = EmptyLine
    /\ lineNr' = 0
    /\ result' = "none"

NoHistory ==
    /\ hoSeen' = FALSE
    /\ starSeen' = FALSE
    /\ dataLines' = <<>>
    /\ fresh' = FreshMap

Init ==
    /\ m_extension = ""
    /\ m_nodePaths = <<>>
    /\ m_clusterIds = {}
    /\ m_flowData = {}
    /\ m_isHigherOrder = InitIsHigherOrder
    /\ pc = "idle"
    /\ includeFlow = FALSE
    /\ layerNodeToStateId = NullIndex
    /\ line = EmptyLine
    /\ lineNr = 0
    /\ result = "none"
    /\ calls = 0
    /\ hoSeen = FALSE
    /\ starSeen = FALSE
    /\ dataLines = <<>>
    /\ fresh = FreshMap

-----------------------------------------------------------------------------
(* The operations.                                                         *)

\* As Dispatch, but whatever is not a tree file is read as a clu file.
Dispatch_DefaultClu(extension) ==
    IF extension = "tree" \/ extension = "ftree" THEN "readTree" ELSE "readClu"

\* The parser readClusterData hands the file to, by its extension.
Dispatch(extension) ==
    IF extension = "tree" \/ extension = "ftree" THEN "readTree"
    ELSE IF extension = "clu" THEN "readClu"
    ELSE "ImplementationError: unknown extension"

\* How an iteration's outcome ends the call, if it does.
ResultOf(res) == IF res = "continue" THEN "running" ELSE IF res = "break" THEN "ok" ELSE res

\* readClusterData(filename, inclFlow, index) up to the first getline of the
\* parser it enters: m_extension is set; readTree clears m_nodePaths; an
\* unknown extension throws.
readClusterData(filename, inclFlow, index) ==
    LET parser == Dispatch(getExtension(filename)) IN
    /\ pc = "idle"
    /\ calls < MaxCalls
    /\ calls' = calls + 1
    /\ m_extension' = getExtension(filename)
    /\ includeFlow' = inclFlow
    /\ layerNodeToStateId' = index
    /\ line' = EmptyLine
    /\ lineNr' = 0
    /\ hoSeen' = FALSE
    /\ starSeen' = FALSE
    /\ dataLines' = <<>>
    /\ IF parser \in {"readTree", "readClu"}
       THEN /\ pc' = parser
            /\ result' = "running"
            /\ m_nodePaths' = IF parser = "readTree" THEN <<>> ELSE m_nodePaths
            /\ fresh' = [FreshMap EXCEPT !.result = "running"]
       ELSE /\ pc' = "done"
            /\ result' = parser
            /\ m_nodePaths' = m_nodePaths
            /\ fresh' = [FreshMap EXCEPT !.result = parser]
    /\ UNCHANGED <<m_clusterIds, m_flowData, m_isHigherOrder>>

\* The tokens of l up to the state id are those of a tree record.
TreeRecordHead(l) ==
    /\ l.lead = "d"
    /\ l.path # <<>>
    /\ Len(l.toks) >= 3
    /\ l.toks[1][1] \in {"int", "dec"}
    /\ l.toks[2][1] = "name"
    /\ l.toks[3][1] = "int"

\* l is a tree record with a node id after the state id.
SuppliesNodeId(l) == TreeRecordHead(l) /\ Len(l.toks) >= 4 /\ l.toks[4][1] = "int"

\* l is a tree record that ends after the state id.
OmitsNodeId(l) == TreeRecordHead(l) /\ Len(l.toks) = 3

\* What the line adds to the history of the call.
Record(l) ==
    /\ hoSeen' = (hoSeen \/ (pc = "readTree" /\ SuppliesNodeId(l)))
    /\ starSeen' = (starSeen \/ l.lead = "*")
    /\ dataLines' = IF pc = "readTree" /\ layerNodeToStateId.null /\ l.lead = "d" /\ ~starSeen
                    THEN Append(dataLines, l) ELSE dataLines
    /\ UNCHANGED calls

\* One iteration of readTree's loop: getline delivers l.
readTreeLine(l) ==
    /\ pc = "readTree"
    /\ lineNr < MaxLines
    /\ LET r == TreeBody(l, m_nodePaths, m_flowData, m_isHigherOrder,
                         includeFlow, layerNodeToStateId)
           f == TreeBody(l, fresh.nodePaths, fresh.flowData, fresh.isHigherOrder,
                         includeFlow, layerNodeToStateId)
       IN /\ m_nodePaths' = r.nodePaths
          /\ m_flowData' = r.flowData
          /\ m_isHigherOrder' = r.isHigherOrder
          /\ result' = ResultOf(r.res)
          /\ pc' = IF r.res = "continue" THEN "readTree" ELSE "done"
          /\ fresh' = IF fresh.result = "running"
                      THEN [fresh EXCEPT !.nodePaths = f.nodePaths, !.flowData = f.flowData,
                                         !.isHigherOrder = f.isHigherOrder,
                                         !.result = ResultOf(f.res)]
                      ELSE fresh
    /\ line' = l
    /\ lineNr' = lineNr + 1
    /\ Record(l)
    /\ UNCHANGED <<m_extension, m_clusterIds, includeFlow, layerNodeToStateId>>

\* getline fails: readTree's loop ends and the call returns normally.
readTreeEof ==
    /\ pc = "readTree"
    /\ pc' = "done"
    /\ result' = "ok"
    /\ fresh' = IF fresh.result = "running" THEN [fresh EXCEPT !.result = "ok"] ELSE fresh
    /\ UNCHANGED <<members, includeFlow, layerNodeToStateId, line, lineNr,
                   calls, hoSeen, starSeen, dataLines>>

\* One iteration of readClu's loop: getline delivers l.
readCluLine(l) ==
    /\ pc = "readClu"
    /\ lineNr < MaxLines
    /\ LET r == CluBody(l, m_clusterIds, m_flowData, includeFlow, layerNodeToStateId)
           f == CluBody(l, fresh.clusterIds, fresh.flowData, includeFlow, layerNodeToStateId)
       IN /\ m_clusterIds' = r.clusterIds
          /\ m_flowData' = r.flowData
          /\ result' = ResultOf(r.res)
          /\ pc' = IF r.res = "continue" THEN "readClu" ELSE "done"
          /\ fresh' = IF fresh.result = "running"
                      THEN [fresh EXCEPT !.clusterIds = f.clusterIds, !.flowData = f.flowData,
                                         !.result = ResultOf(f.res)]
                      ELSE fresh
    /\ line' = l
    /\ lineNr' = lineNr + 1
    /\ Record(l)
    /\ UNCHANGED <<m_extension, m_nodePaths, m_isHigherOrder, includeFlow, layerNodeToStateId>>

\* getline fails: readClu's loop ends and the call returns normally.
readCluEof ==
    /\ pc = "readClu"
    /\ pc' = "done"
    /\ result' = "ok"
    /\ fresh' = IF fresh.result = "running" THEN [fresh EXCEPT !.result = "ok"] ELSE fresh
    /\ UNCHANGED <<members, includeFlow, layerNodeToStateId, line, lineNr,
                   calls, hoSeen, starSeen, dataLines>>

\* The call is over (returned or threw): its arguments and locals are gone,
\* the members stay.
Return ==
    /\ pc = "done"
    /\ pc' = "idle"
    /\ NoFrame
    /\ NoHistory
    /\ UNCHANGED <<members, calls>>

Next ==
    \/ \E filename \in FileNames, inclFlow \in BOOLEAN, index \in Indexes :
          readClusterData(filename, inclFlow, index)
    \/ \E l \in TreeLines : readTreeLine(l)
    \/ readTreeEof
    \/ \E l \in CluLines : readCluLine(l)
    \/ readCluEof
    \/ Return

Spec == Init /\ [][Next]_vars

-----------------------------------------------------------------------------
(* The claims.                                                             *)

\* This step is one iteration of the loop of readTree / readClu, on line'.
TreeLineStep == pc = "readTree" /\ lineNr' = lineNr + 1

CluLineStep == pc = "readClu" /\ lineNr' = lineNr + 1

isMultilayer == ~layerNodeToStateId.null

OutputsUnchanged == UNCHANGED <<m_nodePaths, m_clusterIds, m_flowData>>

\* l is the multilayer tree record <path> <flow> "<name>" <stateId> <nodeId> <layerId>
TreeRecordML(l) ==
    /\ SuppliesNodeId(l)
    /\ Len(l.toks) = 5
    /\ l.toks[5][1] = "int"

\* l is the multilayer clu record <stateId> <moduleId> <flow> <nodeId> <layerId>
CluRecordML(l) ==
    /\ l.lead = "d"
    /\ Len(l.toks) = 5
    /\ \A i \in {1, 2, 4, 5} : l.toks[i][1] = "int"
    /\ l.toks[3][1] \in {"int", "dec"}

\* The record's (layerId, nodeId), its last and last but one token, in the index.
Lookup(l) ==
    Resolve(layerNodeToStateId, l.toks[Len(l.toks)][2], l.toks[Len(l.toks) - 1][2])

\* l is the clu record <stateId> <moduleId> (single-layer) or
\* <stateId> <moduleId> <nodeId> <layerId> (multilayer): no flow token
CluRecordNoFlow(l, multilayer) ==
    /\ l.lead = "d"
    /\ Len(l.toks) = (IF multilayer THEN 4 ELSE 2)
    /\ \A i \in 1..Len(l.toks) : l.toks[i][1] = "int"

\* One of the integers of the path token is 0.
HasZeroInt(chars) ==
    \E i \in 1..Len(chars) :
        /\ chars[i] \in Digits
        /\ (i = 1 \/ chars[i - 1] \notin Digits)
        /\ DecimalValue(chars, i, DigitsEnd(chars, i)) = 0

ZeroInPath == "FileFormatError: 0 in path"

MissingHigherOrderField == "FileFormatError: missing state id"

UnsupportedFormat == "ImplementationError: unknown extension"

\* C1: when a call that entered a parser is over, NodePaths,
\* ClusterAssignment and FlowData hold exactly what a ClusterMap constructed
\* for this call alone holds after it (compared wherever that one ends the
\* call the same way): nothing of an earlier call survives.
C1_ClearedEachCall ==
    (pc = "done" /\ m_extension \in {"tree", "ftree", "clu"} /\ fresh.result = result) =>
        /\ m_nodePaths = fresh.nodePaths
        /\ m_clusterIds = fresh.clusterIds
        /\ m_flowData = fresh.flowData

\* C2: in multilayer mode, a tree or clu record whose (layerId, nodeId) is
\* not in the index changes none of NodePaths, ClusterAssignment, FlowData
\* and raises no error: the loop goes on.
C2_MissChangesNothing ==
    [][ ( /\ isMultilayer
          /\ \/ TreeLineStep /\ TreeRecordML(line')
             \/ CluLineStep /\ CluRecordML(line')
          /\ ~Lookup(line').found )
        => (OutputsUnchanged /\ result' = "running" /\ pc' = pc) ]_vars

\* C3: readClu, multilayer, includeFlow: after a record <stateId> <moduleId>
\* <flow> <nodeId> <layerId> whose (layerId, nodeId) resolves to r,
\* ClusterAssignment[r] = moduleId and FlowData[r] = flow, and neither map
\* has gained the key stateId of the file.
C3_CluResolvedKey ==
    [][ ( /\ CluLineStep
          /\ isMultilayer
          /\ includeFlow
          /\ CluRecordML(line')
          /\ Lookup(line').found )
        => LET r == Lookup(line').stateId
               stateId == line'.toks[1][2]
               moduleId == line'.toks[2][2]
               flow == <<line'.toks[3][2], line'.toks[3][3]>>
           IN /\ Has(m_clusterIds', r) /\ Get(m_clusterIds', r) = moduleId
              /\ Has(m_flowData', r) /\ Get(m_flowData', r) = flow
              /\ stateId # r =>
                   /\ Has(m_clusterIds', stateId) => Has(m_clusterIds, stateId)
                   /\ Has(m_flowData', stateId) => Has(m_flowData, stateId) ]_vars

\* C4: a tree record (complete for the mode: with node id and layer id in
\* multilayer mode, with the node id wherever higher-order mode is on) whose
\* path token holds the integer 0 ends readTree with the invalid path
\* element error, in the index or not.
C4_ZeroAlwaysFails ==
    [][ ( /\ TreeLineStep
          /\ HasZeroInt(line'.path)
          /\ IF isMultilayer THEN TreeRecordML(line')
             ELSE \/ SuppliesNodeId(line')
                  \/ OmitsNodeId(line') /\ ~m_isHigherOrder )
        => (result' = ZeroInPath /\ pc' = "done") ]_vars

\* C5: in one readTree call, once a record has carried the node id, a later
\* record that ends after the state id ends the call with the missing
\* higher-order field error, and is not emitted.
C5_HigherOrderSticks ==
    [][ (TreeLineStep /\ hoSeen /\ OmitsNodeId(line'))
        => /\ result' = MissingHigherOrderField
           /\ pc' = "done"
           /\ m_nodePaths' = m_nodePaths ]_vars

\* A call ended on the missing field after one record of it was emitted
\* with its node id.
C5_Witness ==
    /\ pc = "done"
    /\ result = MissingHigherOrderField
    /\ hoSeen
    /\ OmitsNodeId(line)
    /\ Len(m_nodePaths) >= 1

\* C6: the higher-order flag is reset at the start of every call: a call
\* fails on the missing higher-order field only if a record of its own file
\* carried the node id, whatever the earlier calls read.
C6_FlagResetEachCall == (result = MissingHigherOrderField) => hoSeen

\* C7: a call with an extension other than tree, ftree, clu throws the
\* unsupported format error at once: no parser is entered, no line is read,
\* and NodePaths, ClusterAssignment and FlowData are as before the call.
C7_UnknownExtension ==
    [][ (pc = "idle" /\ pc' # "idle" /\ m_extension' \notin {"tree", "ftree", "clu"})
        => /\ pc' = "done"
           /\ result' = UnsupportedFormat
           /\ lineNr' = 0
           /\ OutputsUnchanged ]_vars

\* The unsupported extension came to a ClusterMap that held paths and flows.
C7_Witness ==
    /\ pc = "done"
    /\ result = UnsupportedFormat
    /\ m_extension = "CLU"
    /\ m_nodePaths # <<>>
    /\ m_flowData # {}

C9_NoFlowWhenExcluded ==
    (pc = "done" /\ result = "ok" /\ ~includeFlow) => m_flowData = {}

\* C10: in readClu a record without flow token is accepted in every mode:
\* it raises no error and leaves FlowData alone; single-layer, it sets
\* ClusterAssignment[stateId] = moduleId; multilayer, <stateId> <moduleId>
\* <nodeId> <layerId> is resolved with that (layerId, nodeId).
C10_FlowOptional ==
    [][ (CluLineStep /\ CluRecordNoFlow(line', isMultilayer))
        => LET stateId == line'.toks[1][2]
               moduleId == line'.toks[2][2]
           IN /\ result' = "running"
              /\ m_flowData' = m_flowData
              /\ IF ~isMultilayer
                 THEN Has(m_clusterIds', stateId) /\ Get(m_clusterIds', stateId) = moduleId
                 ELSE IF Lookup(line').found
                 THEN /\ Has(m_clusterIds', Lookup(line').stateId)
                      /\ Get(m_clusterIds', Lookup(line').stateId) = moduleId
                 ELSE m_clusterIds' = m_clusterIds ]_vars

=============================================================================
